---- MODULE Spec2Model ----
(***************************************************************************)
(* A model of js/sites.js: one Site (a tile of the new-tab grid) bound to  *)
(* one DOM fragment and one link record.                                   *)
(*                                                                         *)
(* Text values (urls, titles, attribute values) are sequences of strings,  *)
(* concatenated with \o; a url is <<origin, path>>.                        *)
(***************************************************************************)
EXTENDS Integers, Sequences, FiniteSets, TLC

VARIABLES
  link,       \* this._link: the link record
  dom,        \* the attributes and children of this._node that the code touches
  listeners,  \* what _addEventHandlers registered: [mouseover, uriKey]
  now,        \* Date.now()
  hidden,     \* document.hidden
  enhanced,   \* gNewTab.enhanced: the enhanced record of the page, a value of
              \* the host; its title is absent when there is none
  cellIndex,  \* this.cell.index
  sent,       \* the messages gNewTab.sendToBrowser got during the last operation
  count,      \* per tracked message name, how many were sent so far
  shows,      \* how many times gUndoDialog.show was called so far
  lastOp,     \* the last operation: its name, and the node's pinned attribute
              \* before it
  nts         \* a call of _newTabString in progress: [str, lastIndex, done],
              \* with the template and the array it was called with

vars == <<link, dom, listeners, now, hidden, enhanced, cellIndex, sent, count,
          shows, lastOp, nts>>

tileVars == <<link, dom, listeners, now, hidden, enhanced, cellIndex, sent,
              count, shows, lastOp>>

----------------------------------------------------------------------------
(* Bounds *)

MaxTime == 2
MaxIndex == 1
MaxCount == 2
MaxPieces == 3
MaxLen == 130

----------------------------------------------------------------------------
(* Values *)

\* A field that is absent (reads as undefined).
Undefined == <<"undefined">>

\* link.endTime absent.
NoEndTime == -1

\* pin() called without an index.
NoIndex == -1

Truthy(text) == text # Undefined /\ text # <<>>

TruthyNum(n) == n # NoEndTime /\ n # 0

\* Services.io.newURI(url).resolve("/"): the origin with the root path.
resolveRoot(u) == <<u[1], "/">>

\* The tile is constructed at StartTime; Date.now() then advances.
StartTime == MaxTime

\* The kinds of link the grid hands to a site: what it shows, whether it
\* carries an image, and when its campaign ends (0 is a falsy endTime, the
\* next one is over at construction, the last one ends after it).
Kinds ==
  { [ url |-> <<"http://a.com", "/">>, title |-> Undefined, type |-> "history",
      imageURI |-> Undefined, enhancedImageURI |-> Undefined,
      targetedSite |-> Undefined, explanation |-> Undefined, endTime |-> NoEndTime ],
    [ url |-> <<"http://a.com", "/x">>, title |-> <<"T">>, type |-> "sponsored",
      imageURI |-> <<"img">>, enhancedImageURI |-> <<"enh">>,
      targetedSite |-> Undefined, explanation |-> Undefined, endTime |-> 0 ],
    [ url |-> <<"http://a.com", "/x">>, title |-> <<"T">>, type |-> "sponsored",
      imageURI |-> <<"img">>, enhancedImageURI |-> <<"enh">>,
      targetedSite |-> Undefined, explanation |-> Undefined, endTime |-> StartTime - 1 ],
    [ url |-> <<"http://a.com", "/x">>, title |-> <<"T">>, type |-> "sponsored",
      imageURI |-> <<"img">>, enhancedImageURI |-> <<"enh">>,
      targetedSite |-> Undefined, explanation |-> Undefined, endTime |-> StartTime ],
    [ url |-> <<"http://b.org", "/y">>, title |-> Undefined, type |-> "affiliate",
      imageURI |-> Undefined, enhancedImageURI |-> Undefined,
      targetedSite |-> <<"s">>,
      explanation |-> <<"%", "2", "$", "S", " ", "%", "1", "$", "S">>,
      endTime |-> StartTime ] }

\* The link of kind k with the given pinState and blockState.
LinkOf(k, ps, bs) ==
  [ url |-> k.url,
    title |-> k.title,
    type |-> k.type,
    baseDomain |-> <<"a.com">>,
    pinState |-> ps,
    blockState |-> bs,
    endTime |-> k.endTime,
    imageURI |-> k.imageURI,
    enhancedImageURI |-> k.enhancedImageURI,
    bgColor |-> Undefined,
    targetedSite |-> k.targetedSite,
    targetedName |-> <<"n">>,
    explanation |-> k.explanation ]

\* pinState and blockState take every combination on the history tile; the
\* sponsored tile whose campaign is still running comes pinned or not; the
\* other kinds come neither pinned nor blocked.
Flagged(k) == k.type = "history" \/ (k.type = "sponsored" /\ k.endTime = StartTime)

Links ==
  {LinkOf(x[1], x[2], x[3]) :
     x \in {y \in Kinds \X BOOLEAN \X BOOLEAN :
              /\ y[2] => Flagged(y[1])
              /\ y[3] => y[1].type = "history"}}

\* The values of gNewTab.enhanced: no title, or a title.
Enhanceds == {[title |-> Undefined], [title |-> <<"E">>]}

\* enhanced && enhanced.title
gNewTabEnhancedTitle == enhanced.title

\* The fragment as the grid's template gives it to the constructor.
FreshDom ==
  [ pinned |-> FALSE,
    pinTitle |-> Undefined,
    type |-> "",
    suggested |-> FALSE,
    href |-> Undefined,
    tooltip |-> Undefined,
    titleText |-> Undefined,
    sponsoredText |-> Undefined,
    suggestedHTML |-> Undefined,
    thumbImage |-> Undefined,
    thumbColor |-> Undefined,
    enhancedImage |-> Undefined,
    active |-> FALSE,
    explains |-> <<>> ]

Tracked == {"NewTab:ReplacePinLink", "NewTab:SpeculativeConnect", "NewTab:BlockLink"}

----------------------------------------------------------------------------
(* The operations, as functions of s = [link, dom, sent, shows].           *)

\* gNewTab.sendToBrowser(name, payload)
sendToBrowser(s, m) == [s EXCEPT !.sent = Append(@, m)]

\* get url()
SiteUrl(l) == l.url

\* get title()
SiteTitle(l) == IF Truthy(l.title) THEN l.title ELSE l.url

isPinned(l) == l.pinState

isBlocked(l) == l.blockState

updateAttributes(s, aPinned) ==
  IF aPinned
    THEN [s EXCEPT !.dom.pinned = TRUE, !.dom.pinTitle = <<"unpin">>]
    ELSE [s EXCEPT !.dom.pinned = FALSE, !.dom.pinTitle = <<"pin">>]

\* pin without the PinLink message.
pinSilent(s, aIndex, cellIdx) == updateAttributes(s, TRUE)

pin(s, aIndex, cellIdx) ==
  LET index == IF aIndex = NoIndex THEN cellIdx ELSE aIndex
      s1 == sendToBrowser(s, [name |-> "NewTab:PinLink", link |-> s.link, index |-> index])
  IN updateAttributes(s1, TRUE)

\* unpin without the isPinned test.
unpinAlways(s) ==
  updateAttributes(sendToBrowser(s, [name |-> "NewTab:UnpinLink", link |-> s.link]), FALSE)

unpin(s) ==
  IF isPinned(s.link)
    THEN updateAttributes(
           sendToBrowser(s, [name |-> "NewTab:UnpinLink", link |-> s.link]), FALSE)
    ELSE s

\* block without the isBlocked test.
blockAlways(s) ==
  sendToBrowser([s EXCEPT !.shows = @ + 1], [name |-> "NewTab:BlockLink", link |-> s.link])

block(s) ==
  IF ~isBlocked(s.link)
    THEN sendToBrowser([s EXCEPT !.shows = @ + 1],
                       [name |-> "NewTab:BlockLink", link |-> s.link])
    ELSE s

\* _checkLinkEndTime without the delete of endTime.
checkLinkEndTimeKept(s, t) ==
  IF TruthyNum(s.link.endTime) /\ s.link.endTime < t
    THEN LET oldUrl == SiteUrl(s.link)
             l1 == [s.link EXCEPT !.url = resolveRoot(oldUrl),
                                  !.imageURI = Undefined,
                                  !.enhancedImageURI = Undefined]
             s1 == [s EXCEPT !.link = l1, !.dom.enhancedImage = <<>>]
         IN sendToBrowser(s1, [name |-> "NewTab:ReplacePinLink",
                               oldUrl |-> oldUrl, link |-> l1])
    ELSE s

checkLinkEndTime(s, t) ==
  IF TruthyNum(s.link.endTime) /\ s.link.endTime < t
    THEN LET oldUrl == SiteUrl(s.link)
             l1 == [s.link EXCEPT !.url = resolveRoot(oldUrl),
                                  !.imageURI = Undefined,
                                  !.enhancedImageURI = Undefined,
                                  !.endTime = NoEndTime]
             s1 == [s EXCEPT !.link = l1, !.dom.enhancedImage = <<>>]
         IN sendToBrowser(s1, [name |-> "NewTab:ReplacePinLink",
                               oldUrl |-> oldUrl, link |-> l1])
    ELSE s

captureIfMissing(s, isHidden) ==
  IF ~isHidden /\ ~Truthy(s.link.imageURI)
    THEN sendToBrowser(s, [name |-> "NewTab:BackgroundPageThumbs", url |-> SiteUrl(s.link)])
    ELSE s

refreshThumbnail(s) ==
  sendToBrowser(s, [name |-> "NewTab:PageThumbs", url |-> SiteUrl(s.link)])

----------------------------------------------------------------------------
(* _newTabString.  A template is a sequence of one-character strings.      *)

Digits == <<"0", "1", "2", "3", "4", "5", "6", "7", "8", "9">>

IsDigit(c) == \E d \in DOMAIN Digits : Digits[d] = c

\* The number a digit character converts to (match.charAt(1) in index - 1).
DigitValue(c) == (CHOOSE d \in DOMAIN Digits : Digits[d] = c) - 1

\* /%[0-9]\$S/ matches at offset p (from 0) of str.
MatchesAt(str, p) ==
  /\ p >= 0
  /\ p + 4 <= Len(str)
  /\ str[p + 1] = "%"
  /\ IsDigit(str[p + 2])
  /\ str[p + 3] = "$"
  /\ str[p + 4] = "S"

\* regExp.exec(str) of the global regExp: the offset of the first match at or
\* after lastIndex, or -1 (exec then returns null and resets lastIndex).
regExpExec(str, lastIndex) ==
  LET ps == {p \in lastIndex .. (Len(str) - 4) : MatchesAt(str, p)}
  IN IF ps = {} THEN -1 ELSE CHOOSE p \in ps : \A q \in ps : p <= q

\* The offset of the first occurrence of the string pat in str, or -1.
indexOf(str, pat) ==
  LET ps == {p \in 0 .. (Len(str) - Len(pat)) :
               SubSeq(str, p + 1, p + Len(pat)) = pat}
  IN IF ps = {} THEN -1 ELSE CHOOSE p \in ps : \A q \in ps : p <= q

\* String(value) of an element of substrArr; an index outside it reads as
\* undefined.
elementAt(substrArr, i) ==
  IF i \in DOMAIN substrArr THEN substrArr[i]
  ELSE <<"u", "n", "d", "e", "f", "i", "n", "e", "d">>

\* The grave accent character (U+0060), written as a name.
GraveAccent == "grave"

\* The apostrophe character (U+0027).
Apostrophe == "'"

\* The replacement text String.prototype.replace makes of repl: $$, $&,
\* $ with a grave accent (the text before the match) and $ with an
\* apostrophe (the text after it) are patterns, every other character
\* stands for itself.
RECURSIVE getSubstitution(_, _, _, _)
getSubstitution(repl, matched, before, after) ==
  IF repl = <<>> THEN <<>>
  ELSE IF Head(repl) = "$" /\ Len(repl) >= 2 /\ repl[2] \in {"$", "&", GraveAccent, Apostrophe}
    THEN (CASE repl[2] = "$" -> <<"$">>
            [] repl[2] = "&" -> matched
            [] repl[2] = GraveAccent -> before
            [] repl[2] = Apostrophe -> after)
         \o getSubstitution(SubSeq(repl, 3, Len(repl)), matched, before, after)
  ELSE <<Head(repl)>> \o getSubstitution(Tail(repl), matched, before, after)

\* str.replace(pat, repl) with a string pattern: the first occurrence only.
stringReplace(str, pat, repl) ==
  LET p == indexOf(str, pat)
  IN IF p = -1 THEN str
     ELSE LET before == SubSeq(str, 1, p)
              after == SubSeq(str, p + Len(pat) + 1, Len(str))
          IN before \o getSubstitution(repl, pat, before, after) \o after

\* One test of the while condition and, if it matches, one run of the body.
\* st = [str, lastIndex, done].  The arguments of replace are values by the
\* time it is called: m is match and e is substrArr[index - 1].
newTabStringStep(st, substrArr) ==
  LET p == regExpExec(st.str, st.lastIndex)
  IN IF p = -1
       THEN [st EXCEPT !.lastIndex = 0, !.done = TRUE]
       ELSE LET match == SubSeq(st.str, p + 1, p + 4)
                index == DigitValue(match[2])
            IN [st EXCEPT !.str = CHOOSE r \in {stringReplace(st.str, m, e) :
                                                    m \in {match},
                                                    e \in {elementAt(substrArr, index)}} :
                                           TRUE,
                          !.lastIndex = p + 4]

newTabStringStart(str) == [str |-> str, lastIndex |-> 0, done |-> FALSE]

RECURSIVE newTabStringLoop(_, _)
newTabStringLoop(st, substrArr) ==
  IF st.done THEN st.str
  ELSE newTabStringLoop(newTabStringStep(st, substrArr), substrArr)

newTabString(str, substrArr) == newTabStringLoop(newTabStringStart(str), substrArr)

\* The template literal <strong> ${text} </strong>
Strong(text) ==
  <<"<", "s", "t", "r", "o", "n", "g", ">", " ">> \o text
    \o <<" ", "<", "/", "s", "t", "r", "o", "n", "g", ">">>

\* The array _getSuggestedTileExplanation passes to _newTabString.
explanationArgs(l) == <<Strong(l.targetedName), Strong(l.targetedSite)>>

getSuggestedTileExplanation(l) ==
  IF Truthy(l.explanation)
    THEN newTabString(l.explanation, explanationArgs(l))
    ELSE <<"suggested.button">> \o Strong(l.targetedName)

\* _render with the display variables read before _checkLinkEndTime runs.
renderUrlFirst(s, t, isHidden) ==
  LET s1 == checkLinkEndTime(s, t)
      l == s1.link
      url == SiteUrl(s.link)
      title == IF Truthy(gNewTabEnhancedTitle) THEN gNewTabEnhancedTitle
               ELSE IF l.type = "history" THEN l.baseDomain
               ELSE SiteTitle(s.link)
      tooltip == IF SiteTitle(s.link) = url THEN SiteTitle(s.link)
                 ELSE SiteTitle(s.link) \o <<"\n">> \o url
      s2 == [s1 EXCEPT !.dom.tooltip = tooltip,
                       !.dom.href = url,
                       !.dom.titleText = title,
                       !.dom.type = l.type]
      s3 == IF Truthy(l.targetedSite)
              THEN [s2 EXCEPT
                      !.dom.sponsoredText =
                         IF s2.dom.type # "sponsored" THEN <<"suggested.tag">> ELSE @,
                      !.dom.suggested = TRUE,
                      !.dom.suggestedHTML =
                         <<"<div class='newtab-suggested-bounds'> ">>
                           \o getSuggestedTileExplanation(l) \o <<" </div>">>]
              ELSE s2
      s4 == IF isPinned(l) THEN updateAttributes(s3, TRUE) ELSE s3
  IN refreshThumbnail(captureIfMissing(s4, isHidden))

render(s, t, isHidden) ==
  LET s1 == checkLinkEndTime(s, t)
      l == s1.link
      url == SiteUrl(l)
      title == IF Truthy(gNewTabEnhancedTitle) THEN gNewTabEnhancedTitle
               ELSE IF l.type = "history" THEN l.baseDomain
               ELSE SiteTitle(l)
      tooltip == IF SiteTitle(l) = url THEN SiteTitle(l)
                 ELSE SiteTitle(l) \o <<"\n">> \o url
      s2 == [s1 EXCEPT !.dom.tooltip = tooltip,
                       !.dom.href = url,
                       !.dom.titleText = title,
                       !.dom.type = l.type]
      s3 == IF Truthy(l.targetedSite)
              THEN [s2 EXCEPT
                      !.dom.sponsoredText =
                         IF s2.dom.type # "sponsored" THEN <<"suggested.tag">> ELSE @,
                      !.dom.suggested = TRUE,
                      !.dom.suggestedHTML =
                         <<"<div class='newtab-suggested-bounds'> ">>
                           \o getSuggestedTileExplanation(l) \o <<" </div>">>]
              ELSE s2
      s4 == IF isPinned(l) THEN updateAttributes(s3, TRUE) ELSE s3
  IN refreshThumbnail(captureIfMissing(s4, isHidden))

\* onFirstVisible without the test of endTime.
onFirstVisibleAlways(s, t, isHidden) == render(s, t, isHidden)

onFirstVisible(s, t, isHidden) ==
  IF TruthyNum(s.link.endTime) /\ s.link.endTime < t
    THEN render(s, t, isHidden)
    ELSE captureIfMissing(s, isHidden)

getURI(s, message) ==
  LET l == s.link
      s1 == IF Truthy(l.bgColor) THEN [s EXCEPT !.dom.thumbColor = l.bgColor] ELSE s
      uri == IF Truthy(s.link.imageURI) THEN s.link.imageURI
             ELSE <<"file://">> \o message.uri
      s2 == [s1 EXCEPT !.dom.thumbImage = <<"url(\"">> \o uri \o <<"\")">>]
  IN IF Truthy(l.enhancedImageURI)
       THEN LET s3 == [s2 EXCEPT !.dom.enhancedImage =
                                    <<"url(\"">> \o l.enhancedImageURI \o <<"\")">>]
            IN IF s.link.type # l.type THEN [s3 EXCEPT !.dom.type = "enhanced"] ELSE s3
       ELSE s2

\* _toggleLegalText without the removeChild.
toggleLegalTextKept(s) ==
  IF s.dom.active
    THEN [s EXCEPT !.dom.active = FALSE]
    ELSE [s EXCEPT !.dom.explains =
                      Append(@, [class |-> "sponsored-explain",
                                 key |-> <<s.dom.type, ".explain">>,
                                 icon |-> "newtab-control-block"]),
                   !.dom.active = TRUE]

toggleLegalText(s) ==
  IF s.dom.active
    THEN \* querySelector finds the first explanation element; it is removed
         [s EXCEPT !.dom.explains = Tail(@), !.dom.active = FALSE]
    ELSE LET type == IF s.dom.suggested /\ s.dom.type = "affiliate"
                       THEN "suggested" ELSE s.dom.type
             icon == IF type = "enhanced" THEN "newtab-customize"
                     ELSE "newtab-control-block"
             key == IF type = "sponsored" THEN <<type, ".explain2">>
                    ELSE <<type, ".explain">>
         IN [s EXCEPT !.dom.explains =
                         Append(@, [class |-> "sponsored-explain", key |-> key, icon |-> icon]),
                      !.dom.active = TRUE]

\* The elements a click can land on: the element's classes and its parent's.
Targets ==
  [ link |-> [classes |-> {"newtab-link"}, parent |-> {"newtab-site"}],
    thumbnail |-> [classes |-> {"newtab-thumbnail"}, parent |-> {"newtab-link"}],
    explainIcon |-> [classes |-> {"newtab-control", "newtab-control-block"},
                     parent |-> {"sponsored-explain"}],
    block |-> [classes |-> {"newtab-control", "newtab-control-block"},
               parent |-> {"newtab-site"}],
    explain |-> [classes |-> {"sponsored-explain"}, parent |-> {"newtab-site"}],
    sponsored |-> [classes |-> {"newtab-sponsored"}, parent |-> {"newtab-site"}],
    pin |-> [classes |-> {"newtab-control", "newtab-control-pin"},
             parent |-> {"newtab-site"}],
    suggested |-> [classes |-> {"newtab-suggested"}, parent |-> {"newtab-site"}] ]

\* The elements of Targets that are in the fragment now.
Present(d) ==
  {t \in DOMAIN Targets :
     t \in {"explainIcon", "explain"} => d.explains # <<>>}

Buttons == {0, 1, 2}

\* The clicks: the primary button on every element; the middle button on
\* the link, where alone it is told from the others; the secondary button
\* on the link, on a control and on the child of the explanation.
Clicks ==
  {c \in Buttons \X DOMAIN Targets :
     \/ c[1] = 0
     \/ c[2] \in {"link", "thumbnail"}
     \/ c[1] = 2 /\ c[2] \in {"block", "explainIcon"}}

\* A test that lets every button through.
isAnyButton(button) == TRUE

\* button == 0 || button == 1
isPrimaryOrMiddle(button) == button = 0 \/ button = 1

\* The result of onClick: the state, the action reported, whether
\* preventDefault was called.
onClick(s, button, target, cellIdx) ==
  LET pinned == isPinned(s.link)
      tileIndex == cellIdx
      cl == Targets[target].classes
      pcl == Targets[target].parent
      r == IF "newtab-link" \in cl \/ "newtab-link" \in pcl
             THEN IF isPrimaryOrMiddle(button)
                    THEN [s |-> sendToBrowser(s, [name |-> "NewTab:RecordSiteClicked",
                                                  index |-> tileIndex]),
                          action |-> "click", prevented |-> FALSE]
                    ELSE [s |-> s, action |-> "", prevented |-> FALSE]
           ELSE IF "sponsored-explain" \in pcl
             THEN [s |-> s, action |-> "sponsored_link", prevented |-> FALSE]
           ELSE IF "suggested-explain" \in pcl
             THEN [s |-> s, action |-> "suggested_link", prevented |-> FALSE]
           ELSE IF button = 0
             THEN IF "newtab-control-block" \in cl
                    THEN [s |-> block(s), action |-> "block", prevented |-> TRUE]
                  ELSE IF "sponsored-explain" \in cl \/ "newtab-sponsored" \in cl
                    THEN [s |-> toggleLegalText(s), action |-> "sponsored",
                          prevented |-> TRUE]
                  ELSE IF pinned /\ "newtab-control-pin" \in cl
                    THEN [s |-> unpin(s), action |-> "unpin", prevented |-> TRUE]
                  ELSE IF ~pinned /\ "newtab-control-pin" \in cl
                    THEN [s |-> pin(s, NoIndex, cellIdx), action |-> "pin",
                          prevented |-> TRUE]
                  ELSE [s |-> s, action |-> "", prevented |-> TRUE]
           ELSE [s |-> s, action |-> "", prevented |-> FALSE]
  IN IF r.action # ""
       THEN [r EXCEPT !.s = sendToBrowser(r.s, [name |-> "NewTab:ReportSitesAction",
                                                sites |-> <<"stringifySites(gGrid.sites)">>,
                                                action |-> r.action,
                                                index |-> tileIndex])]
       ELSE r

\* handleEvent, case "mouseover", without the removeEventListener.
handleMouseoverKept(s, ls) ==
  [s |-> sendToBrowser(s, [name |-> "NewTab:SpeculativeConnect", url |-> SiteUrl(s.link)]),
   listeners |-> ls]

\* handleEvent, case "mouseover": the state and the listeners.
handleMouseover(s, ls) ==
  [s |-> sendToBrowser(s, [name |-> "NewTab:SpeculativeConnect", url |-> SiteUrl(s.link)]),
   listeners |-> [ls EXCEPT !.mouseover = FALSE]]

\* _addEventHandlers: the listeners it registers.
addEventHandlers(l) == [mouseover |-> TRUE, uriKey |-> SiteUrl(l)]

----------------------------------------------------------------------------

Start(l) == [link |-> l, dom |-> FreshDom, sent |-> <<>>, shows |-> 0]

Cur == [link |-> link, dom |-> dom, sent |-> <<>>, shows |-> shows]

Op(name) == [name |-> name, pinnedBefore |-> dom.pinned]

Sent(s, name) == Cardinality({i \in DOMAIN s.sent : s.sent[i].name = name})

Bump(s) == [n \in Tracked |-> count[n] + Sent(s, n)]

Commit(s, op) ==
  /\ \A n \in Tracked : Bump(s)[n] <= MaxCount
  /\ link' = s.link
  /\ dom' = s.dom
  /\ sent' = s.sent
  /\ shows' = s.shows
  /\ count' = Bump(s)
  /\ lastOp' = op
  /\ nts' = nts

\* The state after new Site(node, l): _render, then _addEventHandlers.
Site(l, e, h, c) ==
  /\ enhanced = e
  /\ LET s == render(Start(l), StartTime, h) IN
    /\ link = s.link
    /\ dom = s.dom
    /\ listeners = addEventHandlers(s.link)
    /\ now = StartTime
    /\ hidden = h
    /\ cellIndex = c
    /\ sent = s.sent
    /\ count = [n \in Tracked |-> Sent(s, n)]
    /\ shows = s.shows
    /\ lastOp = [name |-> "Site", pinnedBefore |-> FALSE]

\* No call of _newTabString in progress.
NoCall == [str |-> <<>>, lastIndex |-> 0, done |-> TRUE, template |-> <<>>,
           args |-> <<>>]

\* The index of the tile's cell: the last cell of the grid.
Indexes == {MaxIndex}

\* The argument of pin(): none, the first cell, the last cell.
PinIndexes == {NoIndex, 0, MaxIndex}

Init ==
  /\ \E l \in Links, e \in Enhanceds, h \in BOOLEAN, c \in Indexes :
       Site(l, e, h, c)
  /\ nts = NoCall

PinAt(i) ==
  /\ Commit(pin(Cur, i, cellIndex), Op("pin"))
  /\ UNCHANGED <<listeners, now, hidden, enhanced, cellIndex>>

Pin == \E i \in PinIndexes : PinAt(i)

Unpin ==
  /\ Commit(unpin(Cur), Op("unpin"))
  /\ UNCHANGED <<listeners, now, hidden, enhanced, cellIndex>>

Block ==
  /\ Commit(block(Cur), Op("block"))
  /\ UNCHANGED <<listeners, now, hidden, enhanced, cellIndex>>

Render ==
  /\ Commit(render(Cur, now, hidden), Op("render"))
  /\ UNCHANGED <<listeners, now, hidden, enhanced, cellIndex>>

OnFirstVisible ==
  /\ Commit(onFirstVisible(Cur, now, hidden), Op("onFirstVisible"))
  /\ UNCHANGED <<listeners, now, hidden, enhanced, cellIndex>>

\* captureIfMissing() called on its own.
CaptureIfMissing ==
  /\ Commit(captureIfMissing(Cur, hidden), Op("captureIfMissing"))
  /\ UNCHANGED <<listeners, now, hidden, enhanced, cellIndex>>

\* refreshThumbnail() called on its own: page.js calls it when a capture is
\* done.
RefreshThumbnail ==
  /\ Commit(refreshThumbnail(Cur), Op("refreshThumbnail"))
  /\ UNCHANGED <<listeners, now, hidden, enhanced, cellIndex>>

OnClickAt(b, t) ==
  /\ t \in Present(dom)
  /\ Commit(onClick(Cur, b, t, cellIndex).s, Op("onClick"))
  /\ UNCHANGED <<listeners, now, hidden, enhanced, cellIndex>>

OnClick == \E c \in Clicks : OnClickAt(c[1], c[2])

\* A mouseover reaches handleEvent only while the listener is registered.
Mouseover ==
  /\ listeners.mouseover
  /\ LET r == handleMouseover(Cur, listeners) IN
       /\ Commit(r.s, Op("mouseover"))
       /\ listeners' = r.listeners
  /\ UNCHANGED <<now, hidden, enhanced, cellIndex>>

\* dragstart and dragend go to gDrag, which is not part of the site.
Drag ==
  /\ \E e \in {"dragstart", "dragend"} : Commit(Cur, Op(e))
  /\ UNCHANGED <<listeners, now, hidden, enhanced, cellIndex>>

\* The host answers a thumbnail request: the listener _addEventHandlers
\* registered runs _getURI.
ThumbnailReady ==
  /\ Commit(getURI(Cur, [uri |-> <<"thumb">>]), Op("getURI"))
  /\ UNCHANGED <<listeners, now, hidden, enhanced, cellIndex>>

Tick ==
  /\ now <= MaxTime
  /\ now' = now + 1
  /\ UNCHANGED <<link, dom, listeners, hidden, enhanced, cellIndex, sent, count, shows,
                 lastOp, nts>>

\* The document is shown or hidden: document.hidden changes.
VisibilityChange ==
  /\ hidden' = ~hidden
  /\ UNCHANGED <<link, dom, listeners, now, enhanced, cellIndex, sent, count, shows,
                 lastOp, nts>>

Next ==
  \/ Pin
  \/ Unpin
  \/ Block
  \/ Render
  \/ OnFirstVisible
  \/ CaptureIfMissing
  \/ RefreshThumbnail
  \/ OnClick
  \/ Mouseover
  \/ Drag
  \/ ThumbnailReady
  \/ VisibilityChange
  \/ Tick

Spec == Init /\ [][Next]_vars

----------------------------------------------------------------------------
(* The claims.                                                             *)

Names1(ms) == [i \in DOMAIN ms |-> ms[i].name]

Expired(l, t) == TruthyNum(l.endTime) /\ l.endTime < t

\* _render ran in the last operation: in the constructor, on its own, or in
\* an onFirstVisible that sent PageThumbs.
Rendered ==
  \/ lastOp.name \in {"Site", "render"}
  \/ /\ lastOp.name = "onFirstVisible"
     /\ \E i \in DOMAIN sent : sent[i].name = "NewTab:PageThumbs"

\* C1: a render of a link whose endTime is set (truthy, as the code tests
\* it) and earlier than now leaves the url at the origin of the old url, no
\* imageURI, no enhancedImageURI and no endTime, and sends exactly one
\* ReplacePinLink, with the old url and the link with the new url; a render
\* or onFirstVisible after it sends none, and no tile ever sends two.
C1_ExpiredRender ==
  /\ Expired(link, now) =>
       LET r == render(Cur, now, hidden) IN
         /\ r.link.url = resolveRoot(link.url)
         /\ r.link.imageURI = Undefined
         /\ r.link.enhancedImageURI = Undefined
         /\ r.link.endTime = NoEndTime
         /\ Cardinality({i \in DOMAIN r.sent :
                           r.sent[i].name = "NewTab:ReplacePinLink"}) = 1
         /\ r.sent[1] = [name |-> "NewTab:ReplacePinLink", oldUrl |-> link.url,
                         link |-> r.link]
         /\ \A t \in now .. (MaxTime + 1), h \in BOOLEAN :
              \A again \in {render([r EXCEPT !.sent = <<>>], t, h),
                            onFirstVisible([r EXCEPT !.sent = <<>>], t, h)} :
                \A i \in DOMAIN again.sent :
                  again.sent[i].name # "NewTab:ReplacePinLink"
  /\ count["NewTab:ReplacePinLink"] <= 1

\* A render has just truncated the url of an expired link and sent the
\* ReplacePinLink for it.
C1_Witness ==
  /\ lastOp.name = "render"
  /\ sent # <<>>
  /\ sent[1].name = "NewTab:ReplacePinLink"
  /\ sent[1].oldUrl # link.url
  /\ link.endTime = NoEndTime
  /\ count["NewTab:ReplacePinLink"] = 1

\* C2: pin() on a node without the pinned attribute, then unpin(), leaves
\* the node without the pinned attribute and the pin control titled "pin".
C2_PinThenUnpin ==
  [][ (lastOp.name = "pin" /\ ~lastOp.pinnedBefore /\ Unpin) =>
        (~dom'.pinned /\ dom'.pinTitle = <<"pin">>) ]_vars

\* C3: unpin() on a tile that is not pinned sends no message and changes
\* neither the node's attributes nor the link; this holds of the last
\* operation when it was such an unpin().
C3_UnpinNoop ==
  /\ ~isPinned(link) => unpin(Cur) = Cur
  /\ (lastOp.name = "unpin" /\ ~isPinned(link)) =>
       (sent = <<>> /\ dom.pinned = lastOp.pinnedBefore)

\* unpin() has run on a tile that is not pinned though its node carries the
\* pinned attribute.
C3_Witness ==
  /\ lastOp.name = "unpin"
  /\ ~isPinned(link)
  /\ lastOp.pinnedBefore
  /\ dom.pinned
  /\ sent = <<>>

\* C4: block() on a blocked tile sends nothing and does not show the undo
\* dialog; on a tile that is not blocked it shows the dialog once and sends
\* exactly one BlockLink carrying the link.
C4_Block ==
  /\ IF isBlocked(link)
       THEN block(Cur) = Cur
       ELSE /\ block(Cur).sent = <<[name |-> "NewTab:BlockLink", link |-> link]>>
            /\ block(Cur).shows = shows + 1
  /\ lastOp.name = "block" =>
       IF isBlocked(link)
         THEN sent = <<>>
         ELSE sent = <<[name |-> "NewTab:BlockLink", link |-> link]>>

\* block() has run on a blocked tile.
C4_Witness ==
  /\ lastOp.name = "block"
  /\ isBlocked(link)
  /\ sent = <<>>
  /\ shows = 0

\* C5: a click on the primary link or a child of it with button 0 sends
\* RecordSiteClicked and then one ReportSitesAction "click", both with the
\* cell's index; with button 2 it sends nothing.
C5_LinkClick ==
  \A t \in {"link", "thumbnail"} :
    /\ LET ms == onClick(Cur, 0, t, cellIndex).s.sent IN
         /\ Names1(ms) = <<"NewTab:RecordSiteClicked", "NewTab:ReportSitesAction">>
         /\ ms[1].index = cellIndex
         /\ ms[2].action = "click"
         /\ ms[2].index = cellIndex
    /\ onClick(Cur, 2, t, cellIndex).s.sent = <<>>

\* A click on the link of a tile in a cell other than the first was reported.
C5_Witness ==
  /\ lastOp.name = "onClick"
  /\ Names1(sent) = <<"NewTab:RecordSiteClicked", "NewTab:ReportSitesAction">>
  /\ sent[2].action = "click"
  /\ sent[2].index = cellIndex
  /\ cellIndex > 0

\* C6: the active attribute of the sponsored button is present exactly when
\* one explanation element exists, and without it none exists: toggling on
\* and then off leaves as many explanation elements as before.
C6_Toggle ==
  /\ Len(dom.explains) = IF dom.active THEN 1 ELSE 0
  /\ \A i \in DOMAIN dom.explains : dom.explains[i].class = "sponsored-explain"

\* The explanation was toggled off by the last click.
C6_Witness ==
  /\ lastOp.name = "onClick"
  /\ Names1(sent) = <<"NewTab:ReportSitesAction">>
  /\ sent[1].action = "sponsored"
  /\ ~dom.active
  /\ dom.explains = <<>>

\* C7: SpeculativeConnect is sent at most once; the mouseover that sends it
\* removes the mouseover listener and carries the url the link has then.
C7_SpeculativeConnectOnce ==
  /\ count["NewTab:SpeculativeConnect"] <= 1
  /\ count["NewTab:SpeculativeConnect"] = 1 => ~listeners.mouseover
  /\ lastOp.name = "mouseover" =>
       sent = <<[name |-> "NewTab:SpeculativeConnect", url |-> link.url]>>
  /\ lastOp.name # "mouseover" =>
       \A i \in DOMAIN sent : sent[i].name # "NewTab:SpeculativeConnect"

\* The mouseover came after an expiry rewrote the url; other events followed.
C7_Witness ==
  /\ count["NewTab:SpeculativeConnect"] = 1
  /\ count["NewTab:ReplacePinLink"] = 1
  /\ lastOp.name = "dragend"
  /\ ~listeners.mouseover

\* C8: after every completed render the node's pinned attribute is present
\* exactly when link.pinState is set, and the type attribute is link.type.
C8_RenderedAttributes ==
  Rendered => ((dom.pinned <=> isPinned(link)) /\ dom.type = link.type)

\* C10: BlockLink is sent, and the undo dialog shown, at most once for a tile.
C10_BlockedTerminal ==
  count["NewTab:BlockLink"] <= 1 /\ shows <= 1

\* The thumbnail requests among the messages ms.
Thumbs(ms) ==
  {i \in DOMAIN ms : ms[i].name \in {"NewTab:BackgroundPageThumbs", "NewTab:PageThumbs"}}

\* C11: a render of an expired link shows and requests the truncated url
\* only: the href is the origin url, the tooltip ends with it and holds no
\* part of the old path, every BackgroundPageThumbs and PageThumbs of that
\* render carries it, and the ReplacePinLink comes before them; the same
\* holds of the messages and the node a render has just left.
C11_RenderSeesExpiry ==
  /\ Expired(link, now) =>
       LET r == render(Cur, now, hidden)
           root == resolveRoot(link.url)
           tip == r.dom.tooltip
       IN /\ r.dom.href = root
          /\ Len(tip) >= 2
          /\ SubSeq(tip, Len(tip) - 1, Len(tip)) = root
          /\ link.url # root => \A i \in DOMAIN tip : tip[i] # link.url[2]
          /\ "NewTab:PageThumbs" \in {r.sent[i].name : i \in Thumbs(r.sent)}
          /\ ~hidden =>
                "NewTab:BackgroundPageThumbs" \in {r.sent[i].name : i \in Thumbs(r.sent)}
          /\ \A i \in Thumbs(r.sent) : r.sent[i].url = root /\ r.sent[i].url # link.url
          /\ \E j \in DOMAIN r.sent :
                /\ r.sent[j].name = "NewTab:ReplacePinLink"
                /\ \A i \in Thumbs(r.sent) : j < i
  /\ (sent # <<>> /\ sent[1].name = "NewTab:ReplacePinLink") =>
       /\ dom.href = link.url
       /\ dom.href # sent[1].oldUrl
       /\ \A i \in Thumbs(sent) : i > 1 /\ sent[i].url = link.url

\* onFirstVisible found the campaign over on a visible page and rendered:
\* ReplacePinLink, then both thumbnail requests for the truncated url.
C11_Witness ==
  /\ lastOp.name = "onFirstVisible"
  /\ Names1(sent) = <<"NewTab:ReplacePinLink", "NewTab:BackgroundPageThumbs",
                      "NewTab:PageThumbs">>
  /\ sent[1].oldUrl # link.url
  /\ sent[2].url = link.url
  /\ sent[3].url = link.url
  /\ dom.href = link.url

\* C12: onFirstVisible renders again exactly when link.endTime is set
\* (truthy, as the code tests it) and earlier than now; otherwise it leaves
\* the link and the node as they are and sends nothing but one
\* BackgroundPageThumbs for the url, and that only when the document is not
\* hidden and the link has no imageURI.
C12_OnFirstVisible ==
  LET r == onFirstVisible(Cur, now, hidden) IN
    /\ Expired(link, now) =>
         /\ \E i \in DOMAIN r.sent : r.sent[i].name = "NewTab:PageThumbs"
         /\ r.dom.href = resolveRoot(link.url)
         /\ r.link.endTime = NoEndTime
    /\ ~Expired(link, now) =>
         /\ r.link = link
         /\ r.dom = dom
         /\ r.shows = shows
         /\ r.sent = IF ~hidden /\ ~Truthy(link.imageURI)
                       THEN <<[name |-> "NewTab:BackgroundPageThumbs", url |-> link.url]>>
                       ELSE <<>>
    /\ (lastOp.name = "onFirstVisible" /\ ~Rendered) =>
         /\ Len(sent) <= 1
         /\ \A i \in DOMAIN sent :
              /\ sent[i] = [name |-> "NewTab:BackgroundPageThumbs", url |-> link.url]
              /\ ~Truthy(link.imageURI)

\* onFirstVisible ran before the end of the campaign on a visible page, on a
\* link without an image: one BackgroundPageThumbs, the campaign still set.
C12_Witness ==
  /\ lastOp.name = "onFirstVisible"
  /\ sent = <<[name |-> "NewTab:BackgroundPageThumbs", url |-> link.url]>>
  /\ TruthyNum(link.endTime)
  /\ ~Expired(link, now)
  /\ link.url # resolveRoot(link.url)

\* The intent message of a reported action.
Intent(action) ==
  CASE action = "pin" -> "NewTab:PinLink"
    [] action = "unpin" -> "NewTab:UnpinLink"
    [] action = "block" -> "NewTab:BlockLink"

\* C13, as claimed: a click sends at most one ReportSitesAction, and when the
\* action reported is pin, unpin or block, the click also sent the PinLink,
\* UnpinLink or BlockLink and called preventDefault, whatever the pinState
\* and blockState of the link.
C13_ReportedIntent ==
  \A c \in Clicks :
    c[2] \in Present(dom) =>
      LET r == onClick(Cur, c[1], c[2], cellIndex) IN
        /\ Sent(r.s, "NewTab:ReportSitesAction") <= 1
        /\ r.action \in {"pin", "unpin", "block"} =>
             /\ Sent(r.s, Intent(r.action)) >= 1
             /\ r.prevented

\* C13, amended: a click sends at most one ReportSitesAction, reported last;
\* when the action is pin or unpin the click sent one PinLink or UnpinLink
\* before it; when the action is block it sent one BlockLink before it if
\* the link's blockState was not set and none if it was; preventDefault was
\* called in the three cases.
C13_ReportedIntentUnlessBlocked ==
  \A c \in Clicks :
    c[2] \in Present(dom) =>
      LET r == onClick(Cur, c[1], c[2], cellIndex)
          ms == r.s.sent
      IN /\ Sent(r.s, "NewTab:ReportSitesAction") <= 1
         /\ (r.action = "") <=> (Sent(r.s, "NewTab:ReportSitesAction") = 0)
         /\ r.action # "" =>
              /\ ms[Len(ms)].name = "NewTab:ReportSitesAction"
              /\ ms[Len(ms)].action = r.action
         /\ r.action \in {"pin", "unpin", "block"} =>
              /\ r.prevented
              /\ c[1] = 0
              /\ Sent(r.s, Intent(r.action)) =
                   IF r.action = "block" /\ isBlocked(link) THEN 0 ELSE 1
              /\ Names1(ms) =
                   IF r.action = "block" /\ isBlocked(link)
                     THEN <<"NewTab:ReportSitesAction">>
                     ELSE <<Intent(r.action), "NewTab:ReportSitesAction">>

\* The block control of a blocked tile was clicked: "block" was reported and
\* no BlockLink sent.
C13_Witness ==
  /\ lastOp.name = "onClick"
  /\ isBlocked(link)
  /\ Names1(sent) = <<"NewTab:ReportSitesAction">>
  /\ sent[1].action = "block"
  /\ shows = 0

\* C14: the thumbnail-ready listener of the tile is registered under the
\* url the link has now, and under the url of every BackgroundPageThumbs and
\* PageThumbs request of the last operation.
C14_ListenerKeyedByUrl ==
  /\ listeners.uriKey = link.url
  /\ \A i \in Thumbs(sent) : listeners.uriKey = sent[i].url

----------------------------------------------------------------------------
(* _newTabString on its own: the explanation templates of a suggested tile, *)
(* the loop taken one iteration at a time.                                  *)

Pieces ==
  { <<"a">>, <<"%", "1", "$", "S">>, <<"%", "2", "$", "S">>, <<"%", "3", "$", "S">>,
    <<"%">>, <<"1">>, <<"$", "S">> }

RECURSIVE Concat(_)
Concat(ss) == IF ss = <<>> THEN <<>> ELSE Head(ss) \o Concat(Tail(ss))

Templates ==
  {Concat(ps) : ps \in UNION {[1 .. n -> Pieces] : n \in 1 .. MaxPieces}}

\* link.targetedName comes from the directory source: plain names, a name
\* that is itself a placeholder, and a name that is a replacement pattern.
Names ==
  { <<"n">>, <<"e", "x">>, <<"%", "1", "$", "S">>, <<"$", "&">>,
    <<"$", Apostrophe>>, <<"$", GraveAccent>> }

TargetedSites == {<<"s">>}

SuggestedLinks ==
  {[l EXCEPT !.explanation = e, !.targetedName = n, !.targetedSite = ts] :
     l \in {k \in Links : Truthy(k.targetedSite) /\ ~k.pinState /\ ~k.blockState},
     e \in Templates, n \in Names, ts \in TargetedSites}

\* _getSuggestedTileExplanation calls _newTabString(link.explanation, [..]).
InitStr ==
  /\ Site(CHOOSE l \in Links : Truthy(l.targetedSite) /\ ~l.pinState /\ ~l.blockState,
          [title |-> Undefined], FALSE, MaxIndex)
  /\ \E l \in SuggestedLinks :
       nts = [str |-> l.explanation, lastIndex |-> 0, done |-> FALSE,
              template |-> l.explanation, args |-> explanationArgs(l)]

NtsStep ==
  \E st \in {newTabStringStep([str |-> nts.str, lastIndex |-> nts.lastIndex,
                               done |-> nts.done], nts.args)} :
    nts' = [nts EXCEPT !.str = st.str, !.lastIndex = st.lastIndex, !.done = st.done]

\* regExp.exec found a placeholder: the body of the loop runs.  The call is
\* followed while str is at most MaxLen characters long.
NewTabStringIterate ==
  /\ ~nts.done
  /\ Len(nts.str) <= MaxLen
  /\ regExpExec(nts.str, nts.lastIndex) # -1
  /\ NtsStep
  /\ UNCHANGED tileVars

\* regExp.exec found none: the loop ends and str is returned.
NewTabStringReturn ==
  /\ ~nts.done
  /\ regExpExec(nts.str, nts.lastIndex) = -1
  /\ NtsStep
  /\ UNCHANGED tileVars

NextStr ==
  \/ NewTabStringIterate
  \/ NewTabStringReturn

SpecStr == InitStr /\ [][NextStr]_vars

----------------------------------------------------------------------------

\* The template with every placeholder replaced, left to right, by the
\* element of the array it names.
RECURSIVE Substituted(_, _)
Substituted(tmpl, args) ==
  IF tmpl = <<>> THEN <<>>
  ELSE IF MatchesAt(tmpl, 0)
    THEN elementAt(args, DigitValue(tmpl[2]))
           \o Substituted(SubSeq(tmpl, 5, Len(tmpl)), args)
  ELSE <<Head(tmpl)>> \o Substituted(Tail(tmpl), args)

HasPlaceholder(str) == \E p \in 0 .. (Len(str) - 4) : MatchesAt(str, p)

\* C9: the explanation _newTabString returns for a template with %1$S and
\* %2$S has the targeted name at every %1$S and the targeted site at every
\* %2$S, and no placeholder is left in it, whatever the template and the
\* targeted name are.
C9_Explanation ==
  nts.done =>
    /\ nts.str = Substituted(nts.template, nts.args)
    /\ ~HasPlaceholder(nts.str)

\* A test of the loop condition that every later test repeats.  regExp.exec
\* finds the placeholder match at offset p and replace acts there (the first
\* occurrence of match in str); the text e put in its place is the same
\* whatever surrounds the match; e holds match again at offset d, at or
\* after the 4 characters lastIndex moves on by, and nowhere before d, nor
\* across the seam of e with the text before the match, be that text the
\* one of str or the d characters of an earlier e.  The body then leaves
\* match at offset p + d with lastIndex = p + 4, which is such a test again.
Recurs(st, substrArr) ==
  LET p == regExpExec(st.str, st.lastIndex)
  IN /\ p # -1
     /\ LET match == SubSeq(st.str, p + 1, p + 4)
            v == elementAt(substrArr, DigitValue(match[2]))
            e == getSubstitution(v, match, <<>>, <<>>)
            d == regExpExec(e, 4)
        IN /\ indexOf(st.str, match) = p
           /\ e = getSubstitution(v, match, <<"#">>, <<"#">>)
           /\ d # -1
           /\ SubSeq(e, d + 1, d + 4) = match
           /\ indexOf(SubSeq(e, 1, d) \o e, match) = d + d
           /\ indexOf(SubSeq(st.str, 1, p) \o e, match) = p + d

\* C15: every call of _newTabString returns: for every template and every
\* array, a placeholder in a substituted value or an index past the end of
\* the array included, the loop ends after finitely many replacements.  No
\* call, then, has replaced a placeholder and stands at a test of the loop
\* condition that every later test repeats.
C15_Terminates ==
  ~(~nts.done /\ nts.lastIndex > 0 /\ Recurs(nts, nts.args))

\* The body of the loop takes a test that every later test repeats to
\* another one, and the call has not returned.
RecursStays ==
  [][Recurs(nts, nts.args) => (Recurs(nts', nts'.args) /\ ~nts'.done)]_vars

====
